---- MODULE Spec2Model ----
(***************************************************************************)
(* Model of watchman's subscription engine, src/cmds/subscribe.cpp:        *)
(* the subscribe and unsubscribe commands, the per-client registry         *)
(* (subscriptions, unilateralSub), the settle-time dispatch                *)
(* processSubscription with its drop/defer policy scan, and                *)
(* build_subscription_results with its since-cursor bookkeeping.           *)
(*                                                                         *)
(* External collaborators are modelled by what this file reads of them:    *)
(* the root's tick counter, the asserted-state set behind its lock, the    *)
(* VCS-in-progress flag and the query engine, whose outcome (error, empty, *)
(* results) is a nondeterministic input.                                   *)
(***************************************************************************)
EXTENDS Integers, Sequences, FiniteSets, TLC

VARIABLES
    ticks,            \* root->inner.view most recent tick
    asserted_states,  \* root->asserted_states (set of state names)
    vcsInProgress,    \* root->inner.view->isVCSOperationInProgress()
    rlocks,           \* read locks currently held on root->asserted_states
    clientAlive,      \* clientAlive[c]: weakClient.lock() of c's subscriptions resolves
    subs,             \* sequence of watchman_client_subscription objects
    subscriptions,    \* subscriptions[c][name]: name index (0 = no entry)
    unilateralSub,    \* unilateralSub[c]: handle index, subscriptions holding a feed handle
    outbound,         \* outbound[c]: responses queued for client c, oldest first
    dispatch,         \* the in-flight processSubscription call, if any
    hist,             \* history per subscription: what its queries covered and drops skipped
    last              \* history: the most recent step of the subscription engine

vars == <<ticks, asserted_states, vcsInProgress, rlocks, clientAlive, subs,
          subscriptions, unilateralSub, outbound, dispatch, hist, last>>

root == <<ticks, asserted_states, vcsInProgress>>
registry == <<subscriptions, unilateralSub>>

----
\* Bounds of the model: the root's tick stops at MaxTick and a run creates at
\* most MaxSubs subscriptions (MaxRegistryTick and MaxRegistrySubs where the
\* registry is studied).
MaxTick == 3
MaxSubs == 1
MaxRegistryTick == 2
MaxRegistrySubs == 2

Clients    == {"c1", "c2"}
StateNames == {"s1", "s2"}

NoSub == 0

----
\* ClockPosition and w_clockspec.

RootNumber == 1

\* ClockPosition(): the default-constructed position
ZeroPosition == [rootNumber |-> 0, ticks |-> 0]

\* root->inner.view->getMostRecentRootNumberAndTickValue()
MostRecentPosition(t) == [rootNumber |-> RootNumber, ticks |-> t]

\* ClockPosition::toClockString(): "c:<start>:<pid>:<rootNumber>:<ticks>"
toClockString(pos) == <<"c", pos.rootNumber, pos.ticks>>

\* query->since_spec: null, or a w_clockspec with a tag
NullSpec == [tag |-> "null", position |-> ZeroPosition]
TimestampSpec == [tag |-> "w_cs_timestamp", position |-> ZeroPosition]

\* make_unique<w_clockspec>(position)
ClockSpec(pos) == [tag |-> "w_cs_clock", position |-> pos]

\* since_spec && since_spec->tag == w_cs_clock
IsClock(spec) == spec.tag = "w_cs_clock"

----
\* The policy scan of processSubscription (lines 71-100).

\* The iteration orders `for (auto& policy_iter : drop_or_defer)` can take:
\* the container fixes none the scan may rely on, so every order is tried.
Orders(S) ==
    {o \in [1..Cardinality(S) -> S] : \A i, j \in 1..Cardinality(S) : o[i] = o[j] => i = j}

\* bool defer = false; bool drop = false; w_string policy_name;
NoDecision == [defer |-> FALSE, drop |-> FALSE, policy_name |-> ""]

\* A scan that stops at the first asserted entry, whatever its kind
RECURSIVE ScanPolicies_FirstMatchWins(_, _, _, _)
ScanPolicies_FirstMatchWins(order, table, asserted, acc) ==
    IF order = <<>> THEN acc
    ELSE IF Head(order) \notin asserted
    THEN ScanPolicies_FirstMatchWins(Tail(order), table, asserted, acc)
    ELSE [defer |-> TRUE, drop |-> table[Head(order)], policy_name |-> Head(order)]

\* The loop body, for the entries of order still to visit.
RECURSIVE ScanPolicies(_, _, _, _)
ScanPolicies(order, table, asserted, acc) ==
    IF order = <<>> THEN acc
    ELSE LET name == Head(order)
             policy_is_drop == table[name]
             active == IF ~acc.defer
                       THEN [acc EXCEPT !.defer = TRUE, !.policy_name = name]
                       ELSE acc
         IN  IF name \notin asserted
             THEN ScanPolicies(Tail(order), table, asserted, acc)
             ELSE IF policy_is_drop
                  THEN [active EXCEPT !.drop = TRUE, !.policy_name = name]
                  ELSE ScanPolicies(Tail(order), table, asserted, active)

\* if (!asserted_states->empty() && !drop_or_defer.empty()) { for ... }
EvaluatePolicies(order, table, asserted) ==
    IF asserted # {} /\ DOMAIN table # {}
    THEN ScanPolicies(order, table, asserted, NoDecision)
    ELSE NoDecision

\* executeQuery deferring on any VCS operation, vcs_defer or not
ExecuteQuery_AnyVcsDefers(decision, vcs_defer, vcsOp) ==
    ~decision.drop /\ ~decision.defer /\ ~vcsOp

\* executeQuery without the VCS check of lines 131-138
ExecuteQuery_NoVcsDefer(decision, vcs_defer, vcsOp) == ~decision.drop /\ ~decision.defer

\* bool executeQuery after lines 102-138
ExecuteQuery(decision, vcs_defer, vcsOp) ==
    ~decision.drop /\ ~decision.defer /\ ~(vcs_defer /\ vcsOp)

----
\* build_subscription_results (lines 156-228).

QueryOutcomes == {"error", "empty", "results"}

\* sub->query->since_spec after update_subscription_ticks
update_subscription_ticks(clockAtStartOfQuery) == ClockSpec(clockAtStartOfQuery)

\* A payload whose since is read after update_subscription_ticks has replaced
\* the cursor
Response_SinceAfterUpdate(sub, since_spec, clockAtStartOfQuery) ==
    [since        |-> IF IsClock(since_spec)
                      THEN <<toClockString(clockAtStartOfQuery)>>
                      ELSE <<>>,
     clock        |-> toClockString(clockAtStartOfQuery),
     subscription |-> sub.name,
     unilateral   |-> TRUE]

\* The unilateral payload of lines 208-225.  files is the non-empty result
\* array; is_fresh_instance and root are copied from the engine and the root.
Response(sub, since_spec, clockAtStartOfQuery) ==
    [since        |-> IF IsClock(since_spec)
                      THEN <<toClockString(since_spec.position)>>
                      ELSE <<>>,
     clock        |-> toClockString(clockAtStartOfQuery),
     subscription |-> sub.name,
     unilateral   |-> TRUE]

\* The builder without the empty-result check of line 203
build_subscription_results_EmptyPayload(sub, position, outcome, clockAtStartOfQuery) ==
    IF outcome = "error"
    THEN [since_spec |-> sub.since_spec, position |-> position, response |-> <<>>]
    ELSE [since_spec |-> update_subscription_ticks(clockAtStartOfQuery),
          position   |-> clockAtStartOfQuery,
          response   |-> <<Response(sub, sub.since_spec, clockAtStartOfQuery)>>]

\* The builder with the empty-result update of line 204 left out
build_subscription_results_NoEmptyUpdate(sub, position, outcome, clockAtStartOfQuery) ==
    IF outcome = "results"
    THEN [since_spec |-> update_subscription_ticks(clockAtStartOfQuery),
          position   |-> clockAtStartOfQuery,
          response   |-> <<Response(sub, sub.since_spec, clockAtStartOfQuery)>>]
    ELSE [since_spec |-> sub.since_spec,
          position   |-> IF outcome = "empty" THEN clockAtStartOfQuery ELSE position,
          response   |-> <<>>]

\* Result of one call: the new since_spec, the caller's position (left as
\* passed in when the query fails) and the response (<<>> for nullptr).
build_subscription_results(sub, position, outcome, clockAtStartOfQuery) ==
    IF outcome = "error"
    THEN [since_spec |-> sub.since_spec, position |-> position, response |-> <<>>]
    ELSE IF outcome = "empty"
    THEN [since_spec |-> update_subscription_ticks(clockAtStartOfQuery),
          position   |-> clockAtStartOfQuery,
          response   |-> <<>>]
    ELSE [since_spec |-> update_subscription_ticks(clockAtStartOfQuery),
          position   |-> clockAtStartOfQuery,
          response   |-> <<Response(sub, sub.since_spec, clockAtStartOfQuery)>>]

----
\* History kept beside each subscription, read by the properties only: the
\* ticks its successful queries covered, the ticks a drop skipped, the cursor
\* last installed, the clock of the last payload sent, the since-cursor a
\* deferral left waiting, the defer and drop lists it was created from, the
\* dispatches dropped since a state was last cleared (counted up to two) and
\* the tick at which a state was cleared after two of them.

\* Tick a since-cursor stands at (a cursor that is no clock starts from scratch)
SinceTicks(spec) == IF IsClock(spec) THEN spec.position.ticks ELSE 0

Interval(spec, pos) == (SinceTicks(spec) + 1)..pos.ticks

NoMark == [state |-> "unset", spec |-> NullSpec]

NewHist(args) ==
    [base |-> SinceTicks(args.since_spec), covered |-> {}, skipped |-> {},
     overlap |-> FALSE, installed |-> args.since_spec, clock |-> 0, mark |-> NoMark,
     lists |-> <<args.defer_list, args.drop_list>>, drops |-> 0, landing |-> 0]

\* A deferral that a successful query has now resumed from
Resumed(mark) ==
    IF mark.state = "deferred" THEN [mark EXCEPT !.state = "resumed"] ELSE NoMark

\* A query ran from since-cursor spec at position pos and sent response
HistQuery(h, spec, pos, outcome, response) ==
    IF outcome = "error"
    THEN [h EXCEPT !.mark = NoMark, !.drops = 0, !.landing = 0]
    ELSE [h EXCEPT !.covered = @ \cup Interval(spec, pos),
                   !.overlap = @ \/ Interval(spec, pos) \cap (h.covered \cup h.skipped) # {},
                   !.installed = ClockSpec(pos),
                   !.clock = IF response # <<>> THEN response[1].clock[3] ELSE @,
                   !.mark = Resumed(@),
                   !.drops = 0,
                   !.landing = 0]

HistDrop(h, spec, pos) ==
    [h EXCEPT !.skipped = @ \cup Interval(spec, pos),
              !.overlap = @ \/ Interval(spec, pos) \cap (h.covered \cup h.skipped) # {},
              !.installed = ClockSpec(pos),
              !.mark = NoMark,
              !.drops = IF @ < 2 THEN @ + 1 ELSE @,
              !.landing = 0]

\* The asserted states that table holds a drop entry for
DropStates(table, asserted) == {n \in DOMAIN table \cap asserted : table[n]}

\* State st is cleared at tick t.  The clearing of a state the subscription
\* drops on ends the count of its dropped dispatches, and t is recorded when
\* two dispatches were dropped while st was its one asserted drop state.
HistClear(h, table, asserted, st, t) ==
    IF st \notin DropStates(table, asserted) THEN h
    ELSE [h EXCEPT !.drops = 0,
                   !.landing = IF h.drops = 2 /\ DropStates(table, asserted) = {st}
                               THEN t ELSE @]

HistDefer(h, spec) == [h EXCEPT !.mark = [state |-> "deferred", spec |-> spec]]

\* The level of the most severe line a step writes to the log: the vacated
\* client of line 48 and the failed query of line 188 are logged at ERR, the
\* other branches of a dispatch at DBG, and the commands log nothing.
LogLevel(op, outcome) ==
    IF op = "dispatch" /\ outcome = "vacated" THEN "ERR"
    ELSE IF op \in {"query", "subscribe"} /\ outcome = "error" THEN "ERR"
    ELSE IF op \in {"dispatch", "query"} \/ (op = "subscribe" /\ outcome # "invalid")
    THEN "DBG"
    ELSE "none"

\* The most recent step of the engine: a command or a dispatch step, the
\* subscription it was about, how it ended and the level it logged at.
Event(op, sub, outcome) ==
    [op |-> op, sub |-> sub, outcome |-> outcome, level |-> LogLevel(op, outcome)]

----
\* State after construction: a watched root, connected clients, no subscription.

Idle == [pc |-> "idle", sub |-> NoSub, position |-> ZeroPosition]

AllNames == {"a", "b"}

Init ==
    /\ ticks = 1
    /\ asserted_states = {}
    /\ vcsInProgress = FALSE
    /\ rlocks = 0
    /\ clientAlive = [c \in Clients |-> TRUE]
    /\ subs = <<>>
    /\ subscriptions = [c \in Clients |-> [n \in AllNames |-> NoSub]]
    /\ unilateralSub = [c \in Clients |-> {}]
    /\ outbound = [c \in Clients |-> <<>>]
    /\ dispatch = Idle
    /\ hist = <<>>
    /\ last = Event("none", NoSub, "none")

----
\* The root and the client's I/O, as far as this file touches them.

\* The watcher observes change activity
AdvanceTick ==
    /\ ticks' = ticks + 1
    /\ UNCHANGED <<asserted_states, vcsInProgress, rlocks, clientAlive, subs, registry,
                   outbound, dispatch, hist, last>>

\* state-enter: takes the write lock of root->asserted_states
AssertState(st) ==
    /\ rlocks = 0
    /\ st \notin asserted_states
    /\ asserted_states' = asserted_states \cup {st}
    /\ UNCHANGED <<ticks, vcsInProgress, rlocks, clientAlive, subs, registry,
                   outbound, dispatch, hist, last>>

\* state-leave: takes the write lock of root->asserted_states
ClearState(st) ==
    /\ rlocks = 0
    /\ st \in asserted_states
    /\ asserted_states' = asserted_states \ {st}
    /\ hist' = [s \in DOMAIN hist |->
                    HistClear(hist[s], subs[s].drop_or_defer, asserted_states, st, ticks)]
    /\ UNCHANGED <<ticks, vcsInProgress, rlocks, clientAlive, subs, registry,
                   outbound, dispatch, last>>

\* A VCS operation starts or ends
VCSToggle ==
    /\ vcsInProgress' = ~vcsInProgress
    /\ UNCHANGED <<ticks, asserted_states, rlocks, clientAlive, subs, registry,
                   outbound, dispatch, hist, last>>

\* The client's I/O writes out what is queued for it
Transmit(c) ==
    /\ outbound[c] # <<>>
    /\ outbound' = [outbound EXCEPT ![c] = <<>>]
    /\ UNCHANGED <<root, rlocks, clientAlive, subs, registry, dispatch, hist, last>>

----
\* The per-client registry.

Registry(c) == [subscriptions |-> subscriptions[c], unilateralSub |-> unilateralSub[c]]

\* unsubByName that erases the handle and leaves the name in the name index
unsubByName_KeepName(reg, name) ==
    LET subIter == reg.subscriptions[name]
    IN  IF subIter = NoSub
        THEN [deleted |-> FALSE, reg |-> reg]
        ELSE [deleted |-> TRUE,
              reg |-> [subscriptions |-> reg.subscriptions,
                       unilateralSub |-> reg.unilateralSub \ {subIter}]]

\* unsubByName that erases the name and clears the whole handle index
unsubByName_ClearHandles(reg, name) ==
    LET subIter == reg.subscriptions[name]
    IN  IF subIter = NoSub
        THEN [deleted |-> FALSE, reg |-> reg]
        ELSE [deleted |-> TRUE,
              reg |-> [subscriptions |-> [reg.subscriptions EXCEPT ![name] = NoSub],
                       unilateralSub |-> {}]]

\* watchman_user_client::unsubByName: its result and the registry afterwards
unsubByName(reg, name) ==
    LET subIter == reg.subscriptions[name]
    IN  IF subIter = NoSub
        THEN [deleted |-> FALSE, reg |-> reg]
        ELSE [deleted |-> TRUE,
              reg |-> [subscriptions |-> [reg.subscriptions EXCEPT ![name] = NoSub],
                       unilateralSub |-> reg.unilateralSub \ {subIter}]]

\* ~watchman_client_subscription, run when the registry drops its references:
\* the subscription unsubscribes its own name from a client that still lives.
DestroySubscription(reg, alive, name) ==
    IF alive THEN unsubByName(reg, name).reg ELSE reg

ErrorResponse(msg) == [error |-> msg]

UnsubscribeShapes == {"ok", "root", "name"}

\* cmd_unsubscribe
cmd_unsubscribe(c, shape, name) ==
    /\ clientAlive[c]
    /\ IF shape = "root"
       THEN /\ outbound' = [outbound EXCEPT
                               ![c] = Append(@, ErrorResponse("unable to resolve root"))]
            /\ last' = Event("unsubscribe", NoSub, "invalid")
            /\ UNCHANGED registry
       ELSE IF shape = "name"
       THEN /\ outbound' = [outbound EXCEPT ![c] = Append(@,
                               ErrorResponse("expected 2nd parameter to be subscription name"))]
            /\ last' = Event("unsubscribe", NoSub, "invalid")
            /\ UNCHANGED registry
       ELSE LET r == unsubByName(Registry(c), name)
                after == IF r.deleted
                         THEN DestroySubscription(r.reg, clientAlive[c], name)
                         ELSE r.reg
            IN  /\ subscriptions' = [subscriptions EXCEPT ![c] = after.subscriptions]
                /\ unilateralSub' = [unilateralSub EXCEPT ![c] = after.unilateralSub]
                /\ outbound' = [outbound EXCEPT ![c] =
                                   Append(@, [unsubscribe |-> name, deleted |-> r.deleted])]
                /\ last' = Event("unsubscribe", Registry(c).subscriptions[name],
                                 IF r.deleted THEN "deleted" ELSE "absent")
    /\ UNCHANGED <<root, rlocks, clientAlive, subs, dispatch, hist>>

----
\* cmd_subscribe.

\* sub->drop_or_defer[name] = value
Insert(table, name, value) ==
    [n \in DOMAIN table \cup {name} |-> IF n = name THEN value ELSE table[n]]

\* for (i = 0; i < json_array_size(list); i++) drop_or_defer[list[i]] = value
RECURSIVE InsertAll(_, _, _)
InsertAll(table, list, value) ==
    IF list = <<>> THEN table
    ELSE InsertAll(Insert(table, Head(list), value), Tail(list), value)

\* A table built from the drop list first and the defer list second
PolicyTable_DropFirst(defer_list, drop_list) ==
    InsertAll(InsertAll(<<>>, drop_list, TRUE), defer_list, FALSE)

\* Lines 347-362: the defer list first, then the drop list.  An absent list
\* and an empty one insert nothing, and both are the empty sequence here.
PolicyTable(defer_list, drop_list) ==
    InsertAll(InsertAll(<<>>, defer_list, FALSE), drop_list, TRUE)

\* The subscription built by lines 338-362, before it is registered
NewSubscription(c, args) ==
    [client        |-> c,
     name          |-> args.name,
     since_spec    |-> args.since_spec,
     last_sub_tick |-> 0,
     drop_or_defer |-> PolicyTable(args.defer_list, args.drop_list),
     vcs_defer     |-> args.defer_vcs]

\* The requests a client can send: one that passes, the ones lines 300-336
\* reject ("defer" and "drop": the field is present and is no array), and the
\* ones whose defer or drop array holds an element that is no string.
SubscribeShapes ==
    {"ok", "argc", "root", "name", "query", "defer", "drop", "defer_elem", "drop_elem"}

ElementShapes == {"defer_elem", "drop_elem"}

\* json_to_w_string on an array element (lines 352 and 358).  The function
\* lies outside this file: on an element that is no string it either throws,
\* which unwinds cmd_subscribe, or hands back some string.
JsonToWString == {"converts", "throws"}

\* The name a converted non-string element is recorded under
Unconverted == "?"

\* The request gets past line 362 and registers a subscription
Creates(args) ==
    args.shape = "ok" \/ (args.shape \in ElementShapes /\ args.conv = "converts")

SubscribeError(shape) ==
    IF shape = "argc" THEN "wrong number of arguments for subscribe"
    ELSE IF shape = "root" THEN "unable to resolve root"
    ELSE IF shape = "name" THEN "expected 2nd parameter to be subscription name"
    ELSE IF shape = "query" THEN "failed to parse query"
    ELSE IF shape = "defer" THEN "defer field must be an array of strings"
    ELSE IF shape = "drop" THEN "drop field must be an array of strings"
    ELSE "expected json string object"

cmd_subscribe(c, args, outcome) ==
    /\ clientAlive[c]
    /\ IF args.shape \notin ElementShapes \cup {"ok"}
       THEN /\ outbound' = [outbound EXCEPT
                               ![c] = Append(@, ErrorResponse(SubscribeError(args.shape)))]
            /\ last' = Event("subscribe", NoSub, "invalid")
            /\ UNCHANGED <<subs, registry, hist>>
       ELSE IF ~Creates(args)
       THEN \* the conversion throws in the loop of lines 351-360: the new
            \* subscription, named on line 341 and not yet registered, is
            \* destroyed as cmd_subscribe unwinds, and its destructor
            \* unsubscribes its name from the client
            LET after == DestroySubscription(Registry(c), clientAlive[c], args.name)
            IN  /\ subscriptions' = [subscriptions EXCEPT ![c] = after.subscriptions]
                /\ unilateralSub' = [unilateralSub EXCEPT ![c] = after.unilateralSub]
                /\ outbound' = [outbound EXCEPT
                                   ![c] = Append(@, ErrorResponse(SubscribeError(args.shape)))]
                /\ last' = Event("subscribe", NoSub, "invalid")
                /\ UNCHANGED <<subs, hist>>
       ELSE LET id  == Len(subs) + 1
                sub == NewSubscription(c, args)
                res == build_subscription_results(sub, ZeroPosition, outcome,
                                                  MostRecentPosition(ticks))
                resp == [subscribe |-> args.name, clock |-> toClockString(res.position)]
            IN  /\ unilateralSub' = [unilateralSub EXCEPT ![c] = @ \cup {id}]
                /\ subscriptions' = [subscriptions EXCEPT ![c][args.name] = id]
                /\ subs' = Append(subs, [sub EXCEPT !.since_spec = res.since_spec])
                /\ hist' = Append(hist, HistQuery(NewHist(args), args.since_spec,
                                                  MostRecentPosition(ticks), outcome,
                                                  res.response))
                /\ last' = Event("subscribe", id, outcome)
                /\ outbound' = [outbound EXCEPT ![c] = (@ \o <<resp>>) \o res.response]
    /\ UNCHANGED <<root, rlocks, clientAlive, dispatch>>

\* The client disconnects: its registry is torn down with it
Disconnect(c) ==
    /\ clientAlive[c]
    /\ clientAlive' = [clientAlive EXCEPT ![c] = FALSE]
    /\ subscriptions' = [subscriptions EXCEPT ![c] = [n \in AllNames |-> NoSub]]
    /\ unilateralSub' = [unilateralSub EXCEPT ![c] = {}]
    /\ last' = Event("disconnect", NoSub, "none")
    /\ UNCHANGED <<root, rlocks, subs, outbound, dispatch, hist>>

----
\* processSubscription (lines 44-147), in two steps: everything up to the
\* decision whether to run the query, then w_run_subscription_rules and the
\* tick update of line 142.  The read lock taken on line 72 lives to the end
\* of the block on line 144, so it is held between the two steps.

\* The settle path reaches a subscription through its feed registration, or
\* through a handle that outlived the client.
CanDispatch(s) ==
    \/ s \in unilateralSub[subs[s].client]
    \/ ~clientAlive[subs[s].client]

\* A fast-forward that advances the tick cursor and forgets line 107
FastForward_KeepSince(sub, position) == [sub EXCEPT !.last_sub_tick = position.ticks]

\* A fast-forward that resets the tick cursor instead of advancing it
FastForward_ResetTick(sub, position) ==
    [sub EXCEPT !.last_sub_tick = 0, !.since_spec = ClockSpec(position)]

\* Lines 104-118: the drop fast-forward
FastForward(sub, position) ==
    [sub EXCEPT !.last_sub_tick = position.ticks, !.since_spec = ClockSpec(position)]

\* A short-circuit that is never taken
UpToDate_Never(sub, position) == FALSE

\* Line 71: the subscription has consumed the most recent tick
UpToDate(sub, position) == sub.last_sub_tick = position.ticks

ProcessSubscription(s) ==
    /\ dispatch.pc = "idle"
    /\ s \in 1..Len(subs)
    /\ CanDispatch(s)
    /\ LET sub      == subs[s]
           position == MostRecentPosition(ticks)
       IN  IF ~clientAlive[sub.client]
           THEN /\ last' = Event("dispatch", s, "vacated")
                /\ UNCHANGED <<subs, dispatch, rlocks, hist>>
           ELSE IF UpToDate(sub, position)
           THEN /\ last' = Event("dispatch", s, "uptodate")
                /\ UNCHANGED <<subs, dispatch, rlocks, hist>>
           ELSE \E order \in Orders(DOMAIN sub.drop_or_defer) :
                LET decision == EvaluatePolicies(order, sub.drop_or_defer, asserted_states)
                IN  /\ subs' = [subs EXCEPT
                                   ![s] = IF decision.drop THEN FastForward(sub, position)
                                          ELSE sub]
                    /\ IF ExecuteQuery(decision, sub.vcs_defer, vcsInProgress)
                       THEN /\ dispatch' = [pc |-> "query", sub |-> s, position |-> position]
                            /\ rlocks' = rlocks + 1
                            /\ last' = Event("dispatch", s, "execute")
                            /\ UNCHANGED hist
                       ELSE /\ UNCHANGED <<dispatch, rlocks>>
                            /\ last' = Event("dispatch", s,
                                             IF decision.drop THEN "drop" ELSE "defer")
                            /\ hist' = [hist EXCEPT
                                           ![s] = IF decision.drop
                                                  THEN HistDrop(@, sub.since_spec, position)
                                                  ELSE HistDefer(@, sub.since_spec)]
    /\ UNCHANGED <<root, clientAlive, registry, outbound>>

\* w_run_subscription_rules (lines 230-245), then line 142
RunSubscriptionRules(outcome) ==
    /\ dispatch.pc = "query"
    /\ LET s   == dispatch.sub
           sub == subs[s]
           res == build_subscription_results(sub, ZeroPosition, outcome,
                                             MostRecentPosition(ticks))
       IN  /\ subs' = [subs EXCEPT ![s] = [sub EXCEPT
                                             !.since_spec = res.since_spec,
                                             !.last_sub_tick = dispatch.position.ticks]]
           /\ hist' = [hist EXCEPT ![s] = HistQuery(@, sub.since_spec,
                                                    MostRecentPosition(ticks), outcome,
                                                    res.response)]
           /\ outbound' = [outbound EXCEPT ![sub.client] = @ \o res.response]
           /\ last' = Event("query", s, outcome)
    /\ dispatch' = Idle
    /\ rlocks' = rlocks - 1
    /\ UNCHANGED <<root, clientAlive, registry>>

----
\* What the clients may send, per study: the clients that send commands, the
\* names, the (defer, drop) list pairs
\* and the since fields of a query that parses, and the ways validation fails.

SinceInputs(tags) ==
    (IF "null" \in tags THEN {NullSpec} ELSE {})
    \cup (IF "timestamp" \in tags THEN {TimestampSpec} ELSE {})
    \cup (IF "clock" \in tags THEN {ClockSpec(MostRecentPosition(1))} ELSE {})

SubscribeArgs(P) ==
    {[shape |-> "ok", name |-> n, since_spec |-> sp, defer_list |-> pol[1],
      drop_list |-> pol[2], defer_vcs |-> dv, conv |-> "converts"] :
        n \in P.names, sp \in SinceInputs(P.sinceTags), pol \in P.policies,
        dv \in P.defer_vcs}
    \cup
    {[shape |-> sh, name |-> "a", since_spec |-> NullSpec, defer_list |-> <<>>,
      drop_list |-> <<>>, defer_vcs |-> TRUE, conv |-> "converts"] :
        sh \in P.shapes \ (ElementShapes \cup {"ok"})}
    \cup
    {[shape |-> sh, name |-> "a", since_spec |-> NullSpec,
      defer_list |-> IF sh = "defer_elem" THEN <<Unconverted>> ELSE <<>>,
      drop_list |-> IF sh = "drop_elem" THEN <<Unconverted>> ELSE <<>>,
      defer_vcs |-> TRUE, conv |-> cv] :
        sh \in P.shapes \cap ElementShapes, cv \in JsonToWString}

\* The steps of the root; the tick is capped.
RootNext(P) ==
    \/ ticks < P.maxTick /\ AdvanceTick
    \/ \E st \in P.states : AssertState(st)
    \/ \E st \in P.states : ClearState(st)
    \/ VCSToggle

\* The steps of the clients and of the settle path.  A client sends its next
\* command once the responses queued for it are written; the number of
\* subscriptions created is capped.
EngineNext(P) ==
    \/ \E c \in P.clients : Transmit(c)
    \/ \E c \in P.clients, args \in SubscribeArgs(P) :
          /\ outbound[c] = <<>>
          /\ Creates(args) => Len(subs) < P.maxSubs
          /\ \E outcome \in IF Creates(args) THEN QueryOutcomes ELSE {"error"} :
                cmd_subscribe(c, args, outcome)
    \/ \E c \in P.clients, shape \in UnsubscribeShapes \cap P.shapes, name \in P.names :
          /\ outbound[c] = <<>>
          /\ shape # "ok" => name = "a"
          /\ cmd_unsubscribe(c, shape, name)
    \/ \E s \in 1..P.maxSubs : ProcessSubscription(s)
    \/ \E outcome \in QueryOutcomes : RunSubscriptionRules(outcome)

NextOf(P) == RootNext(P) \/ EngineNext(P)

\* The cursor study: one name, requests that pass validation, a since field
\* that is absent or a clock, and tables with a defer entry, a drop entry, or
\* both.
CursorStudy ==
    [clients   |-> {"c1"},
     names     |-> {"a"},
     shapes    |-> {"ok"},
     sinceTags |-> {"null", "clock"},
     policies  |-> {<<<<>>, <<>>>>, <<<<"s1">>, <<>>>>, <<<<>>, <<"s2">>>>,
                    <<<<"s1">>, <<"s2">>>>},
     defer_vcs |-> BOOLEAN,
     states    |-> StateNames,
     maxSubs   |-> MaxSubs,
     maxTick   |-> MaxTick]

Next == NextOf(CursorStudy)

Spec == Init /\ [][Next]_vars

\* The registry study: two names, re-subscription and disconnection, over
\* subscriptions without policies on a root whose tick advances and whose
\* states and VCS flag stay as they are.
RegistryStudy ==
    [clients   |-> {"c1"},
     names     |-> AllNames,
     shapes    |-> {"ok"},
     sinceTags |-> {"null"},
     policies  |-> {<<<<>>, <<>>>>},
     defer_vcs |-> {TRUE},
     states    |-> {},
     maxSubs   |-> MaxRegistrySubs,
     maxTick   |-> MaxRegistryTick]

NextRegistry ==
    \/ ticks < MaxRegistryTick /\ AdvanceTick
    \/ EngineNext(RegistryStudy)
    \/ \E c \in RegistryStudy.clients : Disconnect(c)

SpecRegistry == Init /\ [][NextRegistry]_vars

\* The policy study: every table the defer and drop lists can build.
PolicyLists == {<<>>, <<"s1">>, <<"s2">>, <<"s1", "s2">>}

PolicyStudy ==
    [clients   |-> {"c1"},
     names     |-> {"a"},
     shapes    |-> {"ok"},
     sinceTags |-> {"null"},
     policies  |-> PolicyLists \X PolicyLists,
     defer_vcs |-> BOOLEAN,
     states    |-> StateNames,
     maxSubs   |-> MaxSubs,
     maxTick   |-> MaxTick]

NextPolicy == NextOf(PolicyStudy)

SpecPolicy == Init /\ [][NextPolicy]_vars

\* The lifecycle study: one subscription, with or without policies, whose
\* client may disconnect at any moment, also while a dispatch is in flight.
LifecycleStudy ==
    [clients   |-> {"c1"},
     names     |-> {"a"},
     shapes    |-> {"ok"},
     sinceTags |-> {"null"},
     policies  |-> {<<<<>>, <<>>>>, <<<<"s1">>, <<"s2">>>>},
     defer_vcs |-> {TRUE},
     states    |-> StateNames,
     maxSubs   |-> MaxSubs,
     maxTick   |-> MaxTick]

NextLifecycle ==
    \/ NextOf(LifecycleStudy)
    \/ \E c \in LifecycleStudy.clients : Disconnect(c)

SpecLifecycle == Init /\ [][NextLifecycle]_vars

\* The validation study: every request a client can send, well-formed or
\* not, for one name, without policies and on a root without states.
ValidationStudy ==
    [clients   |-> {"c1"},
     names     |-> {"a"},
     shapes    |-> SubscribeShapes,
     sinceTags |-> {"null"},
     policies  |-> {<<<<>>, <<>>>>},
     defer_vcs |-> {TRUE},
     states    |-> {},
     maxSubs   |-> MaxSubs,
     maxTick   |-> MaxRegistryTick]

NextValidation ==
    \/ ticks < MaxRegistryTick /\ AdvanceTick
    \/ EngineNext(ValidationStudy)

SpecValidation == Init /\ [][NextValidation]_vars

\* The payload study: a since field that is absent, a timestamp or a clock,
\* on a subscription with or without a drop entry.
PayloadStudy ==
    [clients   |-> {"c1"},
     names     |-> {"a"},
     shapes    |-> {"ok"},
     sinceTags |-> {"null", "timestamp", "clock"},
     policies  |-> {<<<<>>, <<>>>>, <<<<>>, <<"s2">>>>},
     defer_vcs |-> {FALSE},
     states    |-> {"s2"},
     maxSubs   |-> MaxSubs,
     maxTick   |-> MaxTick]

NextPayload == NextOf(PayloadStudy)

SpecPayload == Init /\ [][NextPayload]_vars

\* The frame study: two clients and two names, subscriptions without
\* policies, on a root whose tick, states and VCS flag stay as they are.
FrameStudy ==
    [clients   |-> Clients,
     names     |-> AllNames,
     shapes    |-> {"ok"},
     sinceTags |-> {"null"},
     policies  |-> {<<<<>>, <<>>>>},
     defer_vcs |-> {TRUE},
     states    |-> {},
     maxSubs   |-> MaxRegistrySubs,
     maxTick   |-> MaxRegistryTick]

NextFrame == EngineNext(FrameStudy)

SpecFrame == Init /\ [][NextFrame]_vars

----
\* Properties.

Subs == 1..Len(subs)

\* The responses a step adds to client c's queue
Enqueued(c) ==
    IF Len(outbound'[c]) >= Len(outbound[c])
       /\ SubSeq(outbound'[c], 1, Len(outbound[c])) = outbound[c]
    THEN SubSeq(outbound'[c], Len(outbound[c]) + 1, Len(outbound'[c]))
    ELSE <<>>

IsPayload(r) == "unilateral" \in DOMAIN r

\* The subscription payloads among a sequence of responses
RECURSIVE Payloads(_)
Payloads(q) ==
    IF q = <<>> THEN <<>>
    ELSE IF IsPayload(Head(q)) THEN <<Head(q)>> \o Payloads(Tail(q))
    ELSE Payloads(Tail(q))

\* C1: no change interval is lost or duplicated.  Every query runs from the
\* since-cursor last installed by a successful query or a drop fast-forward
\* (or given at subscribe time); the intervals its successful queries covered
\* and the intervals its drops skipped never overlap; and together they are
\* exactly the ticks from the subscription's first since-cursor up to its
\* present one, so below the cursor only dropped ticks went unqueried.
C1_NoIntervalLostOrDuplicated ==
    \A s \in Subs :
        /\ subs[s].since_spec = hist[s].installed
        /\ ~hist[s].overlap
        /\ hist[s].covered \cap hist[s].skipped = {}
        /\ hist[s].covered \cup hist[s].skipped
               = (hist[s].base + 1)..SinceTicks(subs[s].since_spec)

\* A subscription that queried, dropped a later tick and queried again after it
C1_Witness ==
    \E s \in Subs :
        /\ last = Event("query", s, "results")
        /\ \E a, b \in hist[s].covered, k \in hist[s].skipped : a < k /\ k < b

\* C2: the tick cursor never decreases, and a payload queued for a
\* subscription never carries a clock older than the clock of the payload
\* last sent for it.
C2_CursorAndClocksNeverRegress ==
    [][\A s \in Subs :
          /\ subs'[s].last_sub_tick >= subs[s].last_sub_tick
          /\ \A i \in 1..Len(Payloads(Enqueued(subs[s].client))) :
                LET p == Payloads(Enqueued(subs[s].client))[i]
                IN  p.subscription = subs[s].name => p.clock[3] >= hist[s].clock
          /\ hist'[s].clock >= hist[s].clock]_vars

\* Two payloads of one subscription are queued, the later with the later clock
C2_Witness ==
    \E s \in Subs :
        LET q == Payloads(outbound[subs[s].client])
        IN  /\ Len(q) >= 2
            /\ q[1].subscription = subs[s].name
            /\ q[2].subscription = subs[s].name
            /\ q[1].clock[3] < q[2].clock[3]
            /\ subs[s].last_sub_tick > 1

\* What the policy table and the asserted states call for, read off the two
\* sets alone: a drop when some asserted state has a drop entry, otherwise a
\* defer when some asserted state has an entry of either kind.
DropMatch(sub) ==
    \E n \in DOMAIN sub.drop_or_defer \cap asserted_states : sub.drop_or_defer[n]

DeferMatch(sub) ==
    ~DropMatch(sub) /\ DOMAIN sub.drop_or_defer \cap asserted_states # {}

VcsDefers(sub) == sub.vcs_defer /\ vcsInProgress

\* A dispatch of s that gets as far as the policy evaluator
Evaluates(s) ==
    /\ ProcessSubscription(s)
    /\ clientAlive[subs[s].client]
    /\ subs[s].last_sub_tick # ticks

\* C3: a query error during a settle dispatch leaves the tick cursor and the
\* since-cursor where they were and queues nothing, and the subscription is
\* left behind the root's tick, so that the next settle dispatch runs the
\* query again even when the tick has not moved.
C3_ErrorKeepsCursorAndRetries ==
    [][RunSubscriptionRules("error") =>
          LET s == dispatch.sub
          IN  /\ subs'[s].since_spec = subs[s].since_spec
              /\ outbound' = outbound
              /\ subs'[s].last_sub_tick = subs[s].last_sub_tick
              /\ subs'[s].last_sub_tick # ticks']_vars

\* C4: a dispatch whose policy outcome is drop sets the tick cursor and the
\* since-cursor to the root's position read at its start, starts no query and
\* queues nothing, whatever vcs_defer and the VCS flag are.
C4_DropFastForwards ==
    [][\A s \in Subs :
          Evaluates(s) /\ DropMatch(subs[s]) =>
              /\ subs'[s].last_sub_tick = ticks
              /\ subs'[s].since_spec = ClockSpec(MostRecentPosition(ticks))
              /\ dispatch' = Idle
              /\ rlocks' = rlocks
              /\ outbound' = outbound]_vars

\* A drop has fast-forwarded over ticks while vcs_defer was set and a VCS
\* operation was in progress
C4_Witness ==
    \E s \in Subs :
        /\ last = Event("dispatch", s, "drop")
        /\ subs[s].vcs_defer /\ vcsInProgress
        /\ hist[s].skipped # {}
        /\ subs[s].last_sub_tick = ticks
        /\ subs[s].since_spec = ClockSpec(MostRecentPosition(ticks))

\* C5: a deferred dispatch (a defer entry matches and no drop entry does, or
\* vcs_defer is set during a VCS operation) changes neither cursor, starts no
\* query and queues nothing; the first dispatch after the deferring condition
\* has ended starts the query from the since-cursor the deferral left; and
\* the payload of that query reports that cursor as its since and the root's
\* present position as its clock.
C5_DeferKeepsCursorThenResumes ==
    [][/\ \A s \in Subs :
             Evaluates(s) /\ ~DropMatch(subs[s])
                 /\ (DeferMatch(subs[s]) \/ VcsDefers(subs[s])) =>
                 /\ subs'[s] = subs[s]
                 /\ dispatch' = Idle
                 /\ outbound' = outbound
       /\ \A s \in Subs :
             /\ ProcessSubscription(s)
             /\ clientAlive[subs[s].client]
             /\ hist[s].mark.state = "deferred"
             /\ ~DropMatch(subs[s]) /\ ~DeferMatch(subs[s]) /\ ~VcsDefers(subs[s])
             => /\ dispatch'.pc = "query" /\ dispatch'.sub = s
                /\ subs'[s].since_spec = hist[s].mark.spec
       /\ (RunSubscriptionRules("results") /\ hist[dispatch.sub].mark.state = "deferred") =>
             LET s == dispatch.sub
                 mark == hist[s].mark.spec
             IN  Enqueued(subs[s].client) =
                     <<[since        |-> IF IsClock(mark)
                                         THEN <<toClockString(mark.position)>>
                                         ELSE <<>>,
                        clock        |-> toClockString(MostRecentPosition(ticks)),
                        subscription |-> subs[s].name,
                        unilateral   |-> TRUE]>>]_vars

\* A query that resumed from a deferral has delivered, in one payload, the
\* ticks that accumulated since the deferred cursor
C5_Witness ==
    \E s \in Subs :
        /\ last = Event("query", s, "results")
        /\ hist[s].mark.state = "resumed"
        /\ IsClock(hist[s].mark.spec)
        /\ ticks >= hist[s].mark.spec.position.ticks + 2
        /\ outbound[subs[s].client] # <<>>
        /\ LET p == outbound[subs[s].client][Len(outbound[subs[s].client])]
           IN  /\ IsPayload(p)
               /\ p.since = <<toClockString(hist[s].mark.spec.position)>>
               /\ p.clock = toClockString(MostRecentPosition(ticks))

\* C6: whenever some asserted state has a drop entry in the table, the scan
\* ends in drop, in whatever order the entries are visited and however many
\* asserted states have defer entries, and the dispatch takes the drop branch.
C6_DropTakesPrecedence ==
    [][\A s \in Subs :
          Evaluates(s) /\ DropMatch(subs[s]) =>
              /\ \A order \in Orders(DOMAIN subs[s].drop_or_defer) :
                    EvaluatePolicies(order, subs[s].drop_or_defer, asserted_states).drop
              /\ last' = Event("dispatch", s, "drop")]_vars

\* A dispatch dropped while a defer entry and a drop entry were both asserted
C6_Witness ==
    \E s \in Subs :
        /\ last = Event("dispatch", s, "drop")
        /\ \E d, p \in DOMAIN subs[s].drop_or_defer \cap asserted_states :
              ~subs[s].drop_or_defer[d] /\ subs[s].drop_or_defer[p]

\* C7: with no state asserted, the scan decides nothing whatever the table
\* holds: the dispatch defers only if vcs_defer is set during a VCS
\* operation, and otherwise starts the query; it never fast-forwards.
C7_NoAssertedStateNoPolicy ==
    [][\A s \in Subs :
          Evaluates(s) /\ asserted_states = {} =>
              /\ \A order \in Orders(DOMAIN subs[s].drop_or_defer) :
                    EvaluatePolicies(order, subs[s].drop_or_defer, asserted_states)
                        = NoDecision
              /\ subs' = subs
              /\ IF VcsDefers(subs[s])
                 THEN dispatch' = Idle /\ last' = Event("dispatch", s, "defer")
                 ELSE /\ dispatch' = [pc |-> "query", sub |-> s,
                                      position |-> MostRecentPosition(ticks)]
                      /\ last' = Event("dispatch", s, "execute")]_vars

\* A subscription with a defer and a drop entry, vcs_defer off, started its
\* query during a VCS operation because no state was asserted
C7_Witness ==
    \E s \in Subs :
        /\ last = Event("dispatch", s, "execute")
        /\ dispatch.pc = "query"
        /\ asserted_states = {}
        /\ vcsInProgress /\ ~subs[s].vcs_defer
        /\ \E d, p \in DOMAIN subs[s].drop_or_defer :
              ~subs[s].drop_or_defer[d] /\ subs[s].drop_or_defer[p]

\* C8: a query that succeeds with no results queues no payload and still
\* installs the position read at its start as the since-cursor: at subscribe
\* time only the subscribe reply is queued, and at a settle dispatch the tick
\* cursor advances too.
C8_EmptyResultAdvancesSilently ==
    [][/\ RunSubscriptionRules("empty") =>
             LET s == dispatch.sub
             IN  /\ outbound' = outbound
                 /\ subs'[s].since_spec = ClockSpec(MostRecentPosition(ticks))
                 /\ subs'[s].last_sub_tick = dispatch.position.ticks
                 /\ subs'[s].last_sub_tick > subs[s].last_sub_tick
       /\ \A c \in Clients, args \in SubscribeArgs(CursorStudy) :
             cmd_subscribe(c, args, "empty") =>
                 /\ Enqueued(c) = <<[subscribe |-> args.name,
                                     clock |-> toClockString(MostRecentPosition(ticks))]>>
                 /\ subs'[Len(subs')].since_spec = ClockSpec(MostRecentPosition(ticks))]_vars

\* A settle dispatch ended in an empty result: nothing was ever sent for the
\* subscription, yet both cursors stand at the root's tick
C8_Witness ==
    \E s \in Subs :
        /\ last = Event("query", s, "empty")
        /\ hist[s].clock = 0
        /\ Payloads(outbound[subs[s].client]) = <<>>
        /\ ticks >= 2
        /\ subs[s].since_spec = ClockSpec(MostRecentPosition(ticks))
        /\ subs[s].last_sub_tick = ticks

\* The subscriptions the name index of client c leads to
Named(c) == {subscriptions[c][n] : n \in AllNames} \ {NoSub}

\* C9: cancelling is idempotent.  An unsubscribe of a name the registry does
\* not hold changes neither index and is answered by a normal reply with
\* deleted = FALSE, never an error reply; an unsubscribe of a name it holds
\* answers deleted = TRUE and leaves the name unregistered; and an
\* unsubscribe that directly follows a successful one of the same name
\* answers deleted = FALSE.
C9_UnsubscribeIdempotent ==
    [][\A c \in Clients, name \in AllNames :
          cmd_unsubscribe(c, "ok", name) =>
              /\ subscriptions[c][name] = NoSub =>
                    /\ subscriptions' = subscriptions
                    /\ unilateralSub' = unilateralSub
                    /\ Enqueued(c) = <<[unsubscribe |-> name, deleted |-> FALSE]>>
              /\ subscriptions[c][name] # NoSub =>
                    Enqueued(c) = <<[unsubscribe |-> name, deleted |-> TRUE]>>
              /\ subscriptions'[c][name] = NoSub
              /\ (/\ last.op = "unsubscribe"
                  /\ last.outcome = "deleted"
                  /\ subs[last.sub].client = c
                  /\ subs[last.sub].name = name) =>
                    Enqueued(c) = <<[unsubscribe |-> name, deleted |-> FALSE]>>]_vars

\* A name that was subscribed and cancelled has been cancelled once more, and
\* the reply says nothing was deleted
C9_Witness ==
    \E s \in Subs :
        LET c == subs[s].client
        IN  /\ clientAlive[c]
            /\ s \notin unilateralSub[c]
            /\ s \notin Named(c)
            /\ last = Event("unsubscribe", NoSub, "absent")
            /\ outbound[c] = <<[unsubscribe |-> subs[s].name, deleted |-> FALSE]>>

\* C10: the two indexes of a client's registry stay co-indexed: the
\* subscriptions its name index leads to are exactly those holding a feed
\* handle in its handle index.
C10_IndexesCoIndexed ==
    \A c \in Clients : Named(c) = unilateralSub[c]

\* C11: a dispatch that finds its client gone ends at once and without
\* effect: the subscription (tick cursor, since-cursor, policy table) is as it
\* was, no read lock on the asserted states is taken, no query is started,
\* nothing is queued, and the step does not log at the error level.
C11_VacatedClientIsSilentNoOp ==
    [][\A s \in Subs :
          ProcessSubscription(s) /\ ~clientAlive[subs[s].client] =>
              /\ subs' = subs
              /\ rlocks' = rlocks
              /\ dispatch' = Idle
              /\ outbound' = outbound
              /\ last'.level # "ERR"]_vars

\* C12: once the client of an in-flight dispatch has disconnected, or the
\* subscription has been unsubscribed, the rest of the dispatch queues no
\* payload for that client.
C12_NoDeliveryAfterCancellation ==
    [][\A outcome \in QueryOutcomes :
          RunSubscriptionRules(outcome) =>
              LET s == dispatch.sub
                  c == subs[s].client
              IN  (~clientAlive[c] \/ s \notin unilateralSub[c]) =>
                      Payloads(Enqueued(c)) = <<>>]_vars

\* The requests the validation of cmd_subscribe is to turn away
FailsValidation(args) == args.shape \in SubscribeShapes \ {"ok", "root"}

\* C13: a subscribe that fails validation (argument count, a name that is no
\* string, a query that does not parse, a defer or drop field that is present
\* and is not a sequence of strings) is answered by one error reply and
\* creates nothing: both indexes are as they were, no subscription exists
\* that did not before, and no query is run.
C13_InvalidSubscribeCreatesNothing ==
    [][\A c \in Clients, args \in SubscribeArgs(ValidationStudy), outcome \in QueryOutcomes :
          cmd_subscribe(c, args, outcome) /\ FailsValidation(args) =>
              /\ Len(Enqueued(c)) = 1
              /\ "error" \in DOMAIN Enqueued(c)[1]
              /\ subscriptions' = subscriptions
              /\ unilateralSub' = unilateralSub
              /\ subs' = subs
              /\ last' = Event("subscribe", NoSub, "invalid")]_vars

\* The since a payload is to carry for a query run from since-cursor prior
HasSince(p, prior) ==
    /\ IsPayload(p)
    /\ p.since # <<>> <=> prior.tag = "w_cs_clock"
    /\ p.since # <<>> => p.since = <<<<"c", prior.position.rootNumber, prior.position.ticks>>>>

\* C14: a payload carries a since exactly when the query it reports ran from
\* a since-cursor that was a clock position, and the since is then the
\* canonical string of that position, the one the cursor held before the
\* query replaced it; a payload of a query run from an absent or a
\* timestamp cursor carries none.  Payloads are queued by the queries of
\* dispatches and of subscribe only.
C14_SinceIsPriorClockCursor ==
    [][/\ \A outcome \in QueryOutcomes :
             RunSubscriptionRules(outcome) =>
                 LET s == dispatch.sub
                     q == Enqueued(subs[s].client)
                 IN  \A i \in 1..Len(q) : HasSince(q[i], subs[s].since_spec)
       /\ \A c \in Clients, args \in SubscribeArgs(PayloadStudy), outcome \in QueryOutcomes :
             cmd_subscribe(c, args, outcome) =>
                 \A i \in 2..Len(Enqueued(c)) : HasSince(Enqueued(c)[i], args.since_spec)
       /\ \A c \in Clients :
             Payloads(Enqueued(c)) # <<>> =>
                 \/ \E outcome \in QueryOutcomes : RunSubscriptionRules(outcome)
                 \/ \E args \in SubscribeArgs(PayloadStudy), outcome \in QueryOutcomes :
                        cmd_subscribe(c, args, outcome)]_vars

\* A dispatch has queued a payload whose since is the clock the subscription
\* was created with and whose clock is a later one
C14_Witness ==
    \E s \in Subs :
        /\ last = Event("query", s, "results")
        /\ outbound[subs[s].client] # <<>>
        /\ LET p == outbound[subs[s].client][Len(outbound[subs[s].client])]
           IN  /\ IsPayload(p)
               /\ p.since = <<toClockString(MostRecentPosition(1))>>
               /\ p.clock = toClockString(MostRecentPosition(ticks))
               /\ ticks > 1

\* C15: the dispatch made by subscribe passes the policy evaluator before
\* the result builder: when, at subscribe time, an asserted state has a
\* defer or drop entry in the new subscription's table, or vcs_defer is set
\* during a VCS operation, the query is not run (the since-cursor stays the
\* one given, unless a drop fast-forwards it) and no payload follows the
\* subscribe reply.
C15_SubscribeDispatchHonoursPolicies ==
    [][\A c \in Clients, args \in SubscribeArgs(CursorStudy), outcome \in QueryOutcomes :
          LET sub == NewSubscription(c, args)
          IN  /\ cmd_subscribe(c, args, outcome)
              /\ DropMatch(sub) \/ DeferMatch(sub) \/ VcsDefers(sub)
              => /\ Payloads(Enqueued(c)) = <<>>
                 /\ subs'[Len(subs')].since_spec =
                        IF DropMatch(sub) THEN ClockSpec(MostRecentPosition(ticks))
                        ELSE args.since_spec]_vars

\* C16: a subscription drops on state S and S is asserted; two settle
\* dispatches are dropped; S is cleared; the next dispatch runs the query.
\* The dropped dispatches queue nothing; when S is cleared the since-cursor
\* stands at the root's tick of that moment, also when the tick has
\* advanced since the second dropped dispatch; and the payload of the query
\* that follows carries that position as its since.
C16_DropScenarioLandsAtClearTick ==
    [][/\ \A s \in Subs :
             Evaluates(s) /\ DropMatch(subs[s]) => outbound' = outbound
       /\ \A s \in Subs, st \in StateNames :
             /\ ClearState(st)
             /\ hist[s].drops = 2
             /\ DropStates(subs[s].drop_or_defer, asserted_states) = {st}
             => subs[s].since_spec = ClockSpec(MostRecentPosition(ticks))
       /\ (RunSubscriptionRules("results") /\ hist[dispatch.sub].landing # 0) =>
             LET s == dispatch.sub
                 q == Enqueued(subs[s].client)
             IN  /\ Len(q) = 1
                 /\ IsPayload(q[1])
                 /\ q[1].since = <<<<"c", RootNumber, hist[s].landing>>>>]_vars

\* C17: the read lock on the asserted states is held for the policy scan
\* only: no read lock is held while the query of a dispatch is in progress,
\* so a state can be asserted or cleared at any moment of the query.
C17_NoReadLockAcrossQuery ==
    dispatch.pc = "query" => rlocks = 0

\* C18: a settle dispatch of a subscription whose tick cursor equals the
\* root's most recent tick ends as up to date, whatever the asserted states,
\* the policy table and the VCS flag are: no read lock is taken, no query is
\* started, nothing is queued and the subscription is left as it was.
C18_UpToDateShortCircuits ==
    [][\A s \in Subs :
          /\ ProcessSubscription(s)
          /\ clientAlive[subs[s].client]
          /\ subs[s].last_sub_tick = ticks
          => /\ last' = Event("dispatch", s, "uptodate")
             /\ subs' = subs
             /\ rlocks' = rlocks
             /\ dispatch' = Idle
             /\ outbound' = outbound
             /\ hist' = hist]_vars

\* A dispatch ended as up to date although a state the subscription drops on
\* was asserted and a VCS operation it defers to was in progress
C18_Witness ==
    \E s \in Subs :
        /\ last = Event("dispatch", s, "uptodate")
        /\ subs[s].last_sub_tick = ticks
        /\ ticks > 1
        /\ DropMatch(subs[s])
        /\ VcsDefers(subs[s])
        /\ SinceTicks(subs[s].since_spec) = ticks

\* The names a list holds
Names(list) == {list[i] : i \in 1..Len(list)}

\* C19: the table subscribe builds holds one entry for every name of the two
\* lists: drop for a name of the drop list, in the defer list too or not, and
\* defer for a name of the defer list only.  So a dispatch that reaches the
\* evaluator while a state named in both lists is asserted is dropped, and
\* one for which the only asserted states with an entry come from the defer
\* list alone is deferred.
C19_DropListOverridesDeferList ==
    [][/\ Len(subs') > Len(subs) =>
             \A c \in Clients, args \in SubscribeArgs(PolicyStudy), outcome \in QueryOutcomes :
                cmd_subscribe(c, args, outcome) =>
                    LET table == subs'[Len(subs')].drop_or_defer
                    IN  /\ DOMAIN table = Names(args.defer_list) \cup Names(args.drop_list)
                        /\ \A n \in DOMAIN table : table[n] <=> n \in Names(args.drop_list)
       /\ \A s \in Subs :
             Evaluates(s) =>
                 LET defers == Names(hist[s].lists[1])
                     drops  == Names(hist[s].lists[2])
                 IN  /\ defers \cap drops \cap asserted_states # {} =>
                           last' = Event("dispatch", s, "drop")
                     /\ (defers \cap asserted_states # {} /\ drops \cap asserted_states = {}) =>
                           last' = Event("dispatch", s, "defer")]_vars

\* A subscription that names s1 in both lists and s2 in its defer list alone
\* has a dispatch dropped while s1 and s2 are asserted
C19_Witness ==
    \E s \in Subs :
        /\ last = Event("dispatch", s, "drop")
        /\ hist[s].lists = <<<<"s1", "s2">>, <<"s1">>>>
        /\ subs[s].drop_or_defer = [n \in {"s1", "s2"} |-> n = "s1"]
        /\ asserted_states = {"s1", "s2"}
        /\ subs[s].last_sub_tick = ticks

\* C20: an unsubscribe touches nothing but the subscription its client has
\* registered under the name given, found or not: the client's other names
\* and other handles stay, the registries and queues of the other clients
\* stay, and every subscription keeps its tick cursor, its since-cursor and
\* its policy table.
C20_UnsubscribeTouchesOneName ==
    [][\A c \in Clients, name \in AllNames :
          cmd_unsubscribe(c, "ok", name) =>
              /\ \A n \in AllNames \ {name} : subscriptions'[c][n] = subscriptions[c][n]
              /\ unilateralSub'[c] = unilateralSub[c] \ {subscriptions[c][name]}
              /\ \A d \in Clients \ {c} :
                    /\ subscriptions'[d] = subscriptions[d]
                    /\ unilateralSub'[d] = unilateralSub[d]
                    /\ outbound'[d] = outbound[d]
              /\ \A s \in Subs : s # subscriptions[c][name] => subs'[s] = subs[s]
              /\ Len(subs') = Len(subs)]_vars

\* A subscription has been unsubscribed while its client held another one
\* under another name, which is still in both indexes
C20_Witness ==
    \E s, t \in Subs :
        LET c == subs[s].client
        IN  /\ s # t
            /\ subs[t].client = c
            /\ subs[t].name # subs[s].name
            /\ last = Event("unsubscribe", s, "deleted")
            /\ subscriptions[c][subs[s].name] = NoSub
            /\ s \notin unilateralSub[c]
            /\ subscriptions[c][subs[t].name] = t
            /\ t \in unilateralSub[c]

====
